---- MODULE Spec2Model ----
(***************************************************************************)
(* A model of two Home Assistant integrations:                            *)
(*   - homeassistant/components/mqtt/discovery.py: the MQTT discovery      *)
(*     message handler (topic matching, device payload parsing and         *)
(*     merging, the pending queue per discovery hash);                     *)
(*   - homeassistant/components/point/__init__.py: set up and unload of a  *)
(*     Minut Point config entry and its webhook.                           *)
(*                                                                         *)
(* Python strings whose characters matter (topics, ids, discovery ids,     *)
(* option values) are sequences of one-character strings; dict keys that   *)
(* are only looked up are TLA+ strings.                                    *)
(***************************************************************************)
EXTENDS Integers, Sequences, FiniteSets, TLC

(***************************************************************************)
(* Strings                                                                 *)
(***************************************************************************)

\* The characters of "config", "device", "sensor", ... as Python strings.
S_config == <<"c", "o", "n", "f", "i", "g">>
S_device == <<"d", "e", "v", "i", "c", "e">>
S_sensor == <<"s", "e", "n", "s", "o", "r">>
S_switch == <<"s", "w", "i", "t", "c", "h">>
S_cover == <<"c", "o", "v", "e", "r">>
S_slash == <<"/">>
S_space == <<" ">>

\* discovery_topic, the configured prefix (async_start's parameter).
discovery_topic == <<"h", "a">>

\* The characters \w matches, among the characters the model's topics use.
WordChars ==
    {"a", "b", "c", "d", "e", "f", "g", "h", "i", "n", "o", "r", "s", "t",
     "v", "w", "x", "1", "2", "_"}

\* The characters [a-zA-Z0-9_-] matches, among the same.
IdChars == WordChars \cup {"-"}

\* s[from..], Python's s[from-1:].
Drop(s, n) == SubSeq(s, n + 1, Len(s))

\* Python's s.startswith(p).
StartsWith(s, p) == Len(s) >= Len(p) /\ SubSeq(s, 1, Len(p)) = p

\* Python's s.endswith(p).
EndsWith(s, p) ==
    Len(s) >= Len(p) /\ SubSeq(s, Len(s) - Len(p) + 1, Len(s)) = p

\* The length of the longest prefix of s made of characters of cls: what a
\* greedy cls+ consumes when the next pattern character is not in cls.
RunLen(s, cls) ==
    IF \A i \in 1..Len(s) : s[i] \in cls
    THEN Len(s)
    ELSE (CHOOSE i \in 1..Len(s) :
              s[i] \notin cls /\ \A j \in 1..(i - 1) : s[j] \in cls) - 1

\* Python's s.replace(pat, "", 1): the first occurrence of pat removed.
RemoveFirst(s, pat) ==
    LET occ == {i \in 1..(Len(s) - Len(pat) + 1) :
                    SubSeq(s, i, i + Len(pat) - 1) = pat}
    IN IF occ = {}
       THEN s
       ELSE LET i == CHOOSE k \in occ : \A m \in occ : k <= m
            IN SubSeq(s, 1, i - 1) \o Drop(s, i + Len(pat) - 1)

\* Python's sep.join(parts).
RECURSIVE JoinStr(_, _)
JoinStr(parts, sep) ==
    IF parts = <<>> THEN <<>>
    ELSE IF Len(parts) = 1 THEN parts[1]
    ELSE parts[1] \o sep \o JoinStr(Tail(parts), sep)

\* Python's s.split(" "): the pieces between single spaces (empty pieces
\* kept; never an empty list).
RECURSIVE SplitSpace(_)
SplitSpace(s) ==
    LET sp == {i \in 1..Len(s) : s[i] = " "}
    IN IF sp = {}
       THEN <<s>>
       ELSE LET i == CHOOSE k \in sp : \A m \in sp : k <= m
            IN <<SubSeq(s, 1, i - 1)>> \o SplitSpace(Drop(s, i))

(***************************************************************************)
(* TOPIC_MATCHER                                                           *)
(***************************************************************************)

\* Python's None.
None == <<"None">>

NoMatch == [matched |-> FALSE, component |-> None, node_id |-> None,
            object_id |-> None]

\* [a-zA-Z0-9_-]+ at the start of s, then "/config": the object_id group
\* and the pattern's end.  re.match anchors the start only, so whatever
\* follows "/config" is not looked at.
ObjectThenConfig(s) ==
    LET n == RunLen(s, IdChars)
    IN n >= 1 /\ StartsWith(Drop(s, n), S_slash \o S_config)

\* TOPIC_MATCHER.match(t).groups(): \w+ "/" then the optional node_id group
\* (tried first: ? is greedy) then object_id "/config".
TopicMatch(t) ==
    LET c == RunLen(t, WordChars)
        r == Drop(t, c + 1)
        n == RunLen(r, IdChars)
        afterNode == Drop(r, n + 1)
    IN IF ~(c >= 1 /\ Len(t) > c /\ t[c + 1] = "/")
       THEN NoMatch
       ELSE IF n >= 1 /\ Len(r) > n /\ r[n + 1] = "/"
                /\ ObjectThenConfig(afterNode)
       THEN [matched |-> TRUE, component |-> SubSeq(t, 1, c),
             node_id |-> SubSeq(r, 1, n),
             object_id |-> SubSeq(afterNode, 1, RunLen(afterNode, IdChars))]
       ELSE IF ObjectThenConfig(r)
       THEN [matched |-> TRUE, component |-> SubSeq(t, 1, c),
             node_id |-> None, object_id |-> SubSeq(r, 1, n)]
       ELSE NoMatch

(***************************************************************************)
(* Dicts and payloads                                                      *)
(***************************************************************************)

\* A Python dict with string keys is a function on its set of keys.
EmptyDict == <<>>

Has(d, k) == k \in DOMAIN d

\* d[k] = v
Put(d, k, v) == [y \in (DOMAIN d) \cup {k} |-> IF y = k THEN v ELSE d[y]]

\* d.pop(k), the dict that is left
Del(d, k) == [y \in (DOMAIN d) \ {k} |-> d[y]]

CONF_DEVICE == "device"
CONF_PLATFORM == "platform"
CONF_ORIGIN == "origin"
CONF_COMPONENTS == "components"
TOPIC_BASE == "~"

\* const.SUPPORTED_COMPONENTS (two of its members).
SUPPORTED_COMPONENTS == {S_sensor, S_switch}

\* schemas.SHARED_OPTIONS (two of its members).
SHARED_OPTIONS == {"state_topic", "availability_topic"}

\* abbreviations.ABBREVIATIONS (some of its entries): abbreviation -> key.
ABBREVIATIONS ==
    [stat_t |-> "state_topic", avty_t |-> "availability_topic",
     dev |-> "device", o |-> "origin", cmps |-> "components",
     p |-> "platform"]

\* abbreviations.DEVICE_ABBREVIATIONS (one entry).
DEVICE_ABBREVIATIONS == [ids |-> "identifiers"]

\* abbreviations.ORIGIN_ABBREVIATIONS (one entry).
ORIGIN_ABBREVIATIONS == [sw |-> "sw_version"]

\* The keys whose values are dicts (isinstance(value, dict)); every other
\* value of a payload is a str.
DictKeys == {CONF_DEVICE, CONF_ORIGIN}

\* key.endswith("topic"), for the keys the model's payloads use.
KeyEndsWithTopic(k) == k \in {"state_topic", "availability_topic"}

\* _replace_abbreviations: for key in abbreviations_set & payload:
\* payload[abbreviations[key]] = payload.pop(key).  The abbreviated value
\* replaces a value already stored under the full key.
_replace_abbreviations(payload, abbreviations) ==
    LET abbr == (DOMAIN abbreviations) \cap (DOMAIN payload)
        full == {abbreviations[k] : k \in abbr}
        from(key) == CHOOSE k \in abbr : abbreviations[k] = key
    IN [key \in ((DOMAIN payload) \ abbr) \cup full |->
            IF key \in full THEN payload[from(key)] ELSE payload[key]]

\* _replace_all_abbreviations, for payloads without an availability list.
_replace_all_abbreviations(discovery_payload) ==
    LET p1 == _replace_abbreviations(discovery_payload, ABBREVIATIONS)
        p2 == IF Has(p1, CONF_ORIGIN)
              THEN Put(p1, CONF_ORIGIN,
                       _replace_abbreviations(p1[CONF_ORIGIN],
                                              ORIGIN_ABBREVIATIONS))
              ELSE p1
    IN IF Has(p2, CONF_DEVICE)
       THEN Put(p2, CONF_DEVICE,
                _replace_abbreviations(p2[CONF_DEVICE], DEVICE_ABBREVIATIONS))
       ELSE p2

\* One value of _replace_topic_base's loop.  Both tests read the value as it
\* was, so when it starts and ends with "~" the second assignment stands.
ReplaceBaseValue(base, key, value) ==
    IF key \in DictKeys \/ value = <<>> \/ ~KeyEndsWithTopic(key)
    THEN value
    ELSE IF value[Len(value)] = TOPIC_BASE
    THEN SubSeq(value, 1, Len(value) - 1) \o base
    ELSE IF value[1] = TOPIC_BASE
    THEN base \o Drop(value, 1)
    ELSE value

\* _replace_topic_base, for payloads without an availability list.
_replace_topic_base(discovery_payload) ==
    LET base == discovery_payload[TOPIC_BASE]
        rest == Del(discovery_payload, TOPIC_BASE)
    IN [key \in DOMAIN rest |-> ReplaceBaseValue(base, key, rest[key])]

\* MQTT_ORIGIN_INFO_SCHEMA: a dict with a name.
OriginSchemaValid(origin) == Has(origin, "name")

\* A variant of _valid_origin_info that accepts every origin.
ValidOriginInfoAlways(discovery_payload) == TRUE

\* _valid_origin_info
_valid_origin_info(discovery_payload) ==
    IF ~Has(discovery_payload, CONF_ORIGIN)
    THEN TRUE
    ELSE OriginSchemaValid(discovery_payload[CONF_ORIGIN])

\* A variant of _merge_common_options that takes every shared option of the
\* device payload, also those the component sets itself.
MergeOverwriting(component_config, device_config) ==
    LET add == {o \in SHARED_OPTIONS : Has(device_config, o)}
    IN [key \in (DOMAIN component_config) \cup add |->
            IF key \in add THEN device_config[key] ELSE component_config[key]]

\* _merge_common_options: the component config with every shared option the
\* device payload has and the component has not.
_merge_common_options(component_config, device_config) ==
    LET add == {o \in SHARED_OPTIONS :
                    Has(device_config, o) /\ ~Has(component_config, o)}
    IN [key \in (DOMAIN component_config) \cup add |->
            IF key \in add THEN device_config[key] ELSE component_config[key]]

\* DEVICE_DISCOVERY_SCHEMA: device, origin and components are required; the
\* origin passes MQTT_ORIGIN_INFO_SCHEMA, the device names its identifiers,
\* every component names a supported platform.  The components of a device
\* payload are the sequence of its (component id, config) items.
DeviceSchemaValid(p) ==
    /\ Has(p, CONF_DEVICE) /\ Has(p[CONF_DEVICE], "identifiers")
    /\ Has(p, CONF_ORIGIN) /\ OriginSchemaValid(p[CONF_ORIGIN])
    /\ Has(p, CONF_COMPONENTS)
    /\ \A i \in 1..Len(p[CONF_COMPONENTS]) :
           /\ Has(p[CONF_COMPONENTS][i].config, CONF_PLATFORM)
           /\ p[CONF_COMPONENTS][i].config[CONF_PLATFORM]
                  \in SUPPORTED_COMPONENTS

\* A discovery hash: (component, discovery_id).
Hash(component, discovery_id) == <<component, discovery_id>>

\* A variant of the discovery id with the object_id first.
DiscoveryIdObjectFirst(node_id, object_id) ==
    IF node_id # None THEN object_id \o S_space \o node_id ELSE object_id

\* f"{node_id} {object_id}" if node_id else object_id
DiscoveryId(node_id, object_id) ==
    IF node_id # None THEN node_id \o S_space \o object_id ELSE object_id

(***************************************************************************)
(* The state of MQTT discovery                                             *)
(***************************************************************************)

VARIABLES
    discovery_already_discovered,  \* mqtt_data's set of discovery hashes
    discovery_pending_discovered,  \* hash -> its "pending" deque, left first
    platforms_loaded,              \* mqtt_data.platforms_loaded
    last_discovery,                \* mqtt_data.last_discovery
    setup_tasks,                   \* component -> the _async_component_setup
                                   \* tasks created and not finished, in
                                   \* order, each with the place it waits at
    sent,                          \* the signals the last step dispatched
    clock,                         \* messages received so far: the next
                                   \* message's timestamp is clock + 1
    hist,                          \* history: what was queued, dequeued,
                                   \* answered (see HistInit)
    raised                         \* the exception the last step ended
                                   \* with, "none" when it returned

mqttVars == <<discovery_already_discovered, discovery_pending_discovered,
              platforms_loaded, last_discovery, setup_tasks, sent, clock,
              hist, raised>>

\* f[k] of a function that holds counts or sequences for some keys only.
CountOf(f, k) == IF k \in DOMAIN f THEN f[k] ELSE 0
SeqOf(f, k) == IF k \in DOMAIN f THEN f[k] ELSE <<>>

\* History variables, all per discovery hash:
\*   queued    the ids of the payloads put on the pending queue, in order
\*   dequeued  the ids of the payloads discovery_done took from the queue
\*   done      how many times discovery_done ran
\*   created   how many times a pending entry was created
\*   awaiting  the NEW and UPDATED signals dispatched, less the
\*             MQTT_DISCOVERY_DONE signals the entity platform sent
\*   unasked   the MQTT_DISCOVERY_DONE signals the entity platform sent
\*             while no NEW or UPDATED signal was waiting for an answer
\*             (see Unanswered)
\*   source    the topic, and whether it was a device discovery, of the
\*             message _async_add_component added the hash for
HistInit == [queued |-> <<>>, dequeued |-> <<>>, done |-> <<>>,
             created |-> <<>>, awaiting |-> <<>>, unasked |-> <<>>,
             source |-> <<>>]

\* The NEW and UPDATED signals of a hash that wait for their
\* MQTT_DISCOVERY_DONE: those dispatched, less those answered.
Unanswered(hs, h) == CountOf(hs.awaiting, h) + CountOf(hs.unasked, h)

\* The state as one record, for the handlers that call each other.
World ==
    [already |-> discovery_already_discovered,
     pending |-> discovery_pending_discovered,
     loaded |-> platforms_loaded,
     last_discovery |-> last_discovery,
     tasks |-> setup_tasks,
     sent |-> <<>>,
     hist |-> hist,
     raised |-> "none"]

Commit(w) ==
    /\ discovery_already_discovered' = w.already
    /\ discovery_pending_discovered' = w.pending
    /\ platforms_loaded' = w.loaded
    /\ last_discovery' = w.last_discovery
    /\ setup_tasks' = w.tasks
    /\ sent' = w.sent
    /\ hist' = w.hist
    /\ raised' = w.raised

\* Python's truth value of a payload (a dict): not empty.
Truthy(payload) == DOMAIN payload.cfg # {}

\* async_dispatcher_send of MQTT_DISCOVERY_NEW or MQTT_DISCOVERY_UPDATED.
\* The record keeps whether the hash was discovered when the payload was
\* processed and when the signal was sent.
DispatchSignal(w, signal, h, payload, known_then, known_now) ==
    [w EXCEPT
        !.sent = Append(@, [signal |-> signal, hash |-> h,
                            payload |-> payload,
                            known_when_processed |-> known_then,
                            known_when_sent |-> known_now]),
        !.hist.awaiting = Put(@, h, CountOf(@, h) + 1)]

\* _async_add_component
_async_add_component(w, discovery_payload, known_then) ==
    LET discovery_hash == discovery_payload.discovery_data.hash
    IN DispatchSignal(
           [w EXCEPT
               !.already = @ \cup {discovery_hash},
               !.hist.source =
                   Put(@, discovery_hash,
                       [topic |-> discovery_payload.discovery_data.topic,
                        device_discovery |->
                            discovery_payload.device_discovery])],
           "NEW", discovery_hash, discovery_payload, known_then,
           discovery_hash \in w.already)

RECURSIVE async_process_discovery_payload(_, _, _, _)
RECURSIVE discovery_done(_, _)

\* async_dispatcher_send of MQTT_DISCOVERY_DONE: the dispatcher runs the
\* connected callback, discovery_done, at once; it is connected exactly
\* while the hash has a pending entry.
SendDone(w, h) ==
    LET w1 == [w EXCEPT !.sent = Append(@, [signal |-> "DONE", hash |-> h])]
    IN IF h \in DOMAIN w1.pending THEN discovery_done(w1, h) ELSE w1

\* A pop from the wrong end: the leftmost payload (the newest).
PopLeft(pending) == [item |-> Head(pending), rest |-> Tail(pending)]

\* pending.pop(): the rightmost payload, and the deque that is left.
PopRight(pending) ==
    [item |-> pending[Len(pending)],
     rest |-> SubSeq(pending, 1, Len(pending) - 1)]

\* pending.appendleft(payload)
AppendLeft(pending, payload) == <<payload>> \o pending

\* discovery_done, the callback async_process_discovery_payload connects
\* to MQTT_DISCOVERY_DONE of its hash.
discovery_done(w, h) ==
    LET pending == w.pending[h]
        w0 == [w EXCEPT !.hist.done = Put(@, h, CountOf(@, h) + 1)]
    IN IF pending = <<>>
       THEN [w0 EXCEPT !.pending = Del(@, h)]
       ELSE LET payload == PopRight(pending).item
                w1 == [w0 EXCEPT
                          !.pending[h] = PopRight(pending).rest,
                          !.hist.dequeued =
                              Put(@, h, Append(SeqOf(@, h), payload.id))]
            IN async_process_discovery_payload(w1, h[1], h[2], payload)

\* if (already_discovered or payload) and hash not in pending: the entry
\* with its empty deque is created.
NeedsPendingEntry(w, h, payload) ==
    (h \in w.already \/ Truthy(payload)) /\ h \notin DOMAIN w.pending

\* The branch async_process_discovery_payload takes.
ProcessBranch(w, component, h, payload) ==
    IF component \notin w.loaded /\ Truthy(payload) THEN "setup"
    ELSE IF h \in w.already THEN "update"
    ELSE IF Truthy(payload) THEN "add"
    ELSE "unhandled"

\* async_process_discovery_payload
async_process_discovery_payload(w, component, discovery_id, payload) ==
    LET discovery_hash == Hash(component, discovery_id)
        already_discovered == discovery_hash \in w.already
        w1 == IF NeedsPendingEntry(w, discovery_hash, payload)
              THEN [w EXCEPT
                       !.pending = Put(@, discovery_hash, <<>>),
                       !.hist.created =
                           Put(@, discovery_hash,
                               CountOf(@, discovery_hash) + 1)]
              ELSE w
        branch == ProcessBranch(w1, component, discovery_hash, payload)
    IN CASE branch = "setup" ->
              [w1 EXCEPT !.tasks[component] =
                   Append(@, [payload |-> payload,
                              known_when_processed |-> already_discovered,
                              waits_at |-> "start"])]
         [] branch = "update" ->
              DispatchSignal(w1, "UPDATED", discovery_hash, payload,
                             already_discovered, already_discovered)
         [] branch = "add" ->
              _async_add_component(w1, payload, already_discovered)
         [] OTHER -> SendDone(w1, discovery_hash)

(***************************************************************************)
(* async_discovery_message_received                                        *)
(***************************************************************************)

\* An MQTTDiscoveryPayload: the dict, its device_discovery attribute, its
\* discovery_data attribute (set only on a payload that is not empty) and,
\* for the history, the timestamp of the message it came with.
Payload(cfg, device_discovery, id) ==
    [cfg |-> cfg, device_discovery |-> device_discovery,
     discovery_data |-> None, id |-> id]

\* MqttComponentConfig
MqttComponentConfig(component, object_id, node_id, discovery_payload) ==
    [component |-> component, object_id |-> object_id, node_id |-> node_id,
     discovery_payload |-> discovery_payload]

\* dict[key] = value on a dict kept as the sequence of its items: a key
\* already there keeps its place and takes the new value.
PutItem(items, key, value) ==
    IF \E i \in 1..Len(items) : items[i].id = key
    THEN [i \in 1..Len(items) |->
              IF items[i].id = key THEN [id |-> key, config |-> value]
              ELSE items[i]]
    ELSE Append(items, [id |-> key, config |-> value])

\* The loop of _generate_device_cleanup_config over the discovered hashes,
\* taken in the order the set is iterated in.
RECURSIVE CleanupComponents(_, _, _)
CleanupComponents(hashes, device_node_id, comp_config) ==
    IF hashes = <<>> THEN comp_config
    ELSE LET platform == Head(hashes)[1]
             ids == SplitSpace(Head(hashes)[2])
             component_node_id == Head(ids)
             component_object_id == JoinStr(Tail(ids), S_space)
         IN CleanupComponents(
                Tail(hashes), device_node_id,
                IF Tail(ids) # <<>> /\ device_node_id = component_node_id
                THEN PutItem(comp_config, component_object_id,
                             [platform |-> platform])
                ELSE comp_config)

\* _generate_device_cleanup_config; hashes is discovery_already_discovered
\* in its iteration order.
_generate_device_cleanup_config(hashes, object_id, node_id) ==
    LET device_node_id == IF node_id # None
                          THEN node_id \o S_space \o object_id
                          ELSE object_id
        comp_config == CleanupComponents(hashes, device_node_id, <<>>)
    IN IF comp_config # <<>>
       THEN [device |-> EmptyDict, components |-> comp_config]
       ELSE EmptyDict

\* _parse_device_payload.  A message payload is "" (kind "empty"), text
\* json_loads_object raises ValueError on (kind "invalid") or a JSON object
\* (kind "object", obj the dict).
_parse_device_payload(hashes, payload, object_id, node_id) ==
    IF payload.kind = "empty"
    THEN _generate_device_cleanup_config(hashes, object_id, node_id)
    ELSE IF payload.kind = "invalid"
    THEN EmptyDict
    ELSE LET device_payload == _replace_all_abbreviations(payload.obj)
         IN IF DeviceSchemaValid(device_payload) THEN device_payload
            ELSE EmptyDict

\* One component of a device discovery payload (the body of the loop over
\* component_configs.items()).
DeviceComponent(device_discovery_payload, item, object_id, node_id, ts) ==
    LET component == item.config[CONF_PLATFORM]
        component_node_id == object_id
        component_object_id == IF node_id # None
                               THEN node_id \o S_space \o item.id
                               ELSE item.id
        config == _replace_all_abbreviations(Del(item.config, CONF_PLATFORM))
        origin_config == IF Has(device_discovery_payload, CONF_ORIGIN)
                         THEN device_discovery_payload[CONF_ORIGIN]
                         ELSE None
        discovery_payload ==
            IF DOMAIN config # {}
            THEN Payload(
                     _merge_common_options(
                         Put(Put(config, CONF_DEVICE,
                                 device_discovery_payload[CONF_DEVICE]),
                             CONF_ORIGIN, origin_config),
                         device_discovery_payload),
                     TRUE, ts)
            ELSE Payload(config, FALSE, ts)
    IN MqttComponentConfig(component, component_object_id,
                           component_node_id, discovery_payload)

\* discovered_components of a message, or rejected: the handler returned
\* before its loop over them.
Rejected == [rejected |-> TRUE, components |-> <<>>]

DiscoveredComponents(hashes, msg, match) ==
    IF match.component = S_device
    THEN LET device_discovery_payload ==
                 _parse_device_payload(hashes, msg.payload, match.object_id,
                                       match.node_id)
         IN IF DOMAIN device_discovery_payload = {}
            THEN Rejected
            ELSE [rejected |-> FALSE,
                  components |->
                      [i \in 1..Len(device_discovery_payload[CONF_COMPONENTS])
                          |-> DeviceComponent(
                                  device_discovery_payload,
                                  device_discovery_payload[CONF_COMPONENTS][i],
                                  match.object_id, match.node_id,
                                  msg.timestamp)]]
    ELSE IF msg.payload.kind = "invalid"
    THEN Rejected
    ELSE LET discovery_payload ==
                 _replace_all_abbreviations(
                     IF msg.payload.kind = "object" THEN msg.payload.obj
                     ELSE EmptyDict)
         IN IF ~_valid_origin_info(discovery_payload)
            THEN Rejected
            ELSE [rejected |-> FALSE,
                  components |->
                      <<MqttComponentConfig(
                            match.component, match.object_id, match.node_id,
                            Payload(discovery_payload, FALSE,
                                    msg.timestamp))>>]

\* The loop over discovered_components: a component that is not supported,
\* and a payload that is queued, end the handler (return).
RECURSIVE ProcessComponents(_, _, _)
ProcessComponents(w, discovered_components, topic) ==
    IF discovered_components = <<>> THEN w
    ELSE LET cc == Head(discovered_components)
             cfg == IF Has(cc.discovery_payload.cfg, TOPIC_BASE)
                    THEN _replace_topic_base(cc.discovery_payload.cfg)
                    ELSE cc.discovery_payload.cfg
             discovery_id == DiscoveryId(cc.node_id, cc.object_id)
             discovery_hash == Hash(cc.component, discovery_id)
             discovery_payload ==
                 [cc.discovery_payload EXCEPT
                     !.cfg = cfg,
                     !.discovery_data =
                         IF DOMAIN cfg # {}
                         THEN [hash |-> discovery_hash, topic |-> topic]
                         ELSE None]
         IN IF cc.component \notin SUPPORTED_COMPONENTS
            THEN w
            ELSE IF discovery_hash \in DOMAIN w.pending
            THEN [w EXCEPT
                    !.pending[discovery_hash] =
                        AppendLeft(@, discovery_payload),
                    !.hist.queued =
                        Put(@, discovery_hash,
                            Append(SeqOf(@, discovery_hash),
                                   discovery_payload.id))]
            ELSE ProcessComponents(
                     async_process_discovery_payload(
                         w, cc.component, discovery_id, discovery_payload),
                     Tail(discovered_components), topic)

\* async_discovery_message_received; hashes is the order a loop over
\* discovery_already_discovered takes.
async_discovery_message_received(w, msg, hashes) ==
    LET w0 == [w EXCEPT !.last_discovery = msg.timestamp]
        topic_trimmed == RemoveFirst(msg.topic, discovery_topic \o S_slash)
        match == TopicMatch(topic_trimmed)
        discovered == DiscoveredComponents(hashes, msg, match)
    IN IF ~match.matched THEN w0
       ELSE IF discovered.rejected THEN w0
       ELSE ProcessComponents(w0, discovered.components, msg.topic)

(***************************************************************************)
(* The Minut Point integration                                             *)
(***************************************************************************)

VARIABLES
    entry_data,           \* entry.data, a dict
    entry_state,          \* the config entry's state, kept by the host
    runtime_data,         \* entry.runtime_data: the client's number, or None
    clients_created,      \* how many MinutPointClient objects were made
    update_tasks,         \* how many client.update() tasks were started
    webhooks_registered,  \* the ids registered with the webhook component
    remote_webhook,       \* the webhook id the Point cloud holds, or None
    point_calls,          \* the calls the last operation made, in order
    point_result,         \* how the last operation ended
    point_op,             \* the last operation and its inputs
    ids_generated,        \* how many webhook ids were generated
    setups,               \* how many times async_setup_entry was called
    point_pc              \* the await async_setup_entry or
                          \* async_unload_entry waits at, or "idle"

VARIABLES
    hook_waiting,  \* the webhook ids of the calls of handle_webhook that
                   \* wait for the body of their request, oldest first
    hook_request,  \* the last request whose body handle_webhook got
    hook_calls     \* the calls handle_webhook made for it, in order

pointVars == <<entry_data, entry_state, runtime_data, clients_created,
               update_tasks, webhooks_registered, remote_webhook,
               point_calls, point_result, point_op, ids_generated, setups,
               point_pc, hook_waiting, hook_request, hook_calls>>

CONF_WEBHOOK_ID == "webhook_id"
CONF_WEBHOOK_URL == "webhook_url"

\* HTTPStatus.UNAUTHORIZED and HTTPStatus.FORBIDDEN
UNAUTHORIZED == 401
FORBIDDEN == 403

\* How auth.async_get_access_token() can end: with the token, with a
\* ClientResponseError of some status (401, 403, and 400 and 500 for the
\* others), with another ClientError.
TokenOutcomes ==
    {[kind |-> "ok", status |-> 0],
     [kind |-> "ClientResponseError", status |-> UNAUTHORIZED],
     [kind |-> "ClientResponseError", status |-> FORBIDDEN],
     [kind |-> "ClientResponseError", status |-> 400],
     [kind |-> "ClientResponseError", status |-> 500],
     [kind |-> "ClientError", status |-> 0]}

\* Every ClientResponseError but 401 is "not ready": 403 left out of the set.
AccessTokenResultOnly401(outcome) ==
    IF outcome.kind = "ClientResponseError"
    THEN IF outcome.status = UNAUTHORIZED
         THEN "ConfigEntryAuthFailed" ELSE "ConfigEntryNotReady"
    ELSE IF outcome.kind = "ClientError" THEN "ConfigEntryNotReady"
    ELSE "ok"

\* The try block of async_setup_entry: what it raises for an outcome of
\* async_get_access_token.
AccessTokenResult(outcome) ==
    IF outcome.kind = "ClientResponseError"
    THEN IF outcome.status \in {UNAUTHORIZED, FORBIDDEN}
         THEN "ConfigEntryAuthFailed" ELSE "ConfigEntryNotReady"
    ELSE IF outcome.kind = "ClientError" THEN "ConfigEntryNotReady"
    ELSE "ok"

\* webhook.async_generate_id: an id not generated before.
async_generate_id(p) == <<"generated", p.ids_generated + 1>>

\* webhook.async_generate_url: the URL of a webhook id.
async_generate_url(webhook_id) == <<"url", webhook_id>>

\* A webhook id for every set up, stored or not.
NeedsWebhookIdAlways(data) == TRUE

\* if CONF_WEBHOOK_ID not in entry.data
NeedsWebhookId(data) == ~Has(data, CONF_WEBHOOK_ID)

\* The Point state as one record.
PointWorld ==
    [entry_data |-> entry_data, runtime_data |-> runtime_data,
     clients_created |-> clients_created, update_tasks |-> update_tasks,
     webhooks_registered |-> webhooks_registered,
     remote_webhook |-> remote_webhook, point_calls |-> <<>>,
     ids_generated |-> ids_generated]

PointCommit(p) ==
    /\ entry_data' = p.entry_data
    /\ runtime_data' = p.runtime_data
    /\ clients_created' = p.clients_created
    /\ update_tasks' = p.update_tasks
    /\ webhooks_registered' = p.webhooks_registered
    /\ remote_webhook' = p.remote_webhook
    /\ point_calls' = p.point_calls
    /\ ids_generated' = p.ids_generated

\* The most set ups of a behaviour.
MaxSetups == 3

\* How an awaited call of the Point session (update_webhook,
\* remove_webhook) can end: it returns, or it raises a ClientError.
SessionOutcomes == {"ok", "ClientError"}

\* No outcome of async_get_access_token yet.
NoOutcome == [kind |-> "none", status |-> 0]

\* async_setup_webhook up to its wait for session.update_webhook: the id
\* and URL when the entry has none, and the call.
async_setup_webhook(p) ==
    LET p1 == IF NeedsWebhookId(p.entry_data)
              THEN LET webhook_id == async_generate_id(p)
                   IN [p EXCEPT
                          !.ids_generated = @ + 1,
                          !.entry_data =
                              Put(Put(@, CONF_WEBHOOK_ID, webhook_id),
                                  CONF_WEBHOOK_URL,
                                  async_generate_url(webhook_id))]
              ELSE p
        stored == p1.entry_data[CONF_WEBHOOK_ID]
    IN [p1 EXCEPT
           !.point_calls =
               @ \o <<[call |-> "update_webhook",
                       url |-> async_generate_url(stored),
                       webhook_id |-> stored]>>]

\* async_setup_webhook from the return of session.update_webhook, which
\* set the webhook of the Point cloud: webhook.async_register.  When
\* update_webhook raised nothing is registered.
async_setup_webhook_resumed(p, outcome) ==
    LET stored == p.entry_data[CONF_WEBHOOK_ID]
    IN IF outcome = "ok"
       THEN [p EXCEPT
                !.remote_webhook = stored,
                !.webhooks_registered = @ \cup {stored},
                !.point_calls =
                    @ \o <<[call |-> "async_register",
                            webhook_id |-> stored]>>]
       ELSE p

\* How async_setup_entry ends for an entry and an outcome of
\* async_get_access_token.
SetupResult(data, outcome) ==
    IF ~Has(data, "auth_implementation") THEN "ConfigEntryAuthFailed"
    ELSE AccessTokenResult(outcome)

\* async_setup_entry, after the access token was fetched: the client, its
\* update task, runtime_data, and async_setup_webhook up to its wait.
SetupBody(p) ==
    async_setup_webhook(
        [p EXCEPT !.clients_created = @ + 1,
                  !.update_tasks = @ + 1,
                  !.runtime_data = p.clients_created + 1])

\* The state the host gives an entry whose set up raised.
FailedState(result) ==
    IF result = "ConfigEntryNotReady" THEN "setup_retry" ELSE "setup_error"

\* async_setup_entry, from its call to its first wait.  The host sets up
\* an entry that is not loaded; without an auth_implementation the call
\* raises at once.
async_setup_entry ==
    /\ point_pc = "idle"
    /\ entry_state \in {"not_loaded", "setup_error", "setup_retry"}
    /\ setups' = setups + 1
    /\ point_op' = [op |-> "setup", outcome |-> NoOutcome,
                    update_webhook |-> "none"]
    /\ PointCommit(PointWorld)
    /\ IF ~Has(entry_data, "auth_implementation")
       THEN /\ point_result' = SetupResult(entry_data, NoOutcome)
            /\ entry_state' = FailedState(point_result')
            /\ point_pc' = "idle"
       ELSE /\ point_result' = "pending"
            /\ entry_state' = "setup_in_progress"
            /\ point_pc' = "await_implementation"

\* async_setup_entry, from the return of
\* async_get_config_entry_implementation to the wait for the access token.
async_setup_entry_implementation ==
    /\ point_pc = "await_implementation"
    /\ point_pc' = "await_access_token"
    /\ UNCHANGED <<entry_data, entry_state, runtime_data, clients_created,
                   update_tasks, webhooks_registered, remote_webhook,
                   point_calls, point_result, point_op, ids_generated,
                   setups>>

\* async_setup_entry, from the end of auth.async_get_access_token to the
\* wait for session.update_webhook, or to the exception it raises.
async_setup_entry_token(outcome) ==
    /\ point_pc = "await_access_token"
    /\ UNCHANGED setups
    /\ point_op' = [point_op EXCEPT !.outcome = outcome]
    /\ LET result == SetupResult(entry_data, outcome)
           p == [PointWorld EXCEPT !.point_calls = point_calls]
       IN IF result = "ok"
          THEN /\ PointCommit(SetupBody(p))
               /\ UNCHANGED <<point_result, entry_state>>
               /\ point_pc' = "await_update_webhook"
          ELSE /\ PointCommit(p)
               /\ point_result' = result
               /\ entry_state' = FailedState(result)
               /\ point_pc' = "idle"

\* async_setup_entry, from the end of session.update_webhook to its
\* return, or to the ClientError it lets through.
async_setup_entry_webhook(outcome) ==
    /\ point_pc = "await_update_webhook"
    /\ UNCHANGED setups
    /\ point_op' = [point_op EXCEPT !.update_webhook = outcome]
    /\ PointCommit(async_setup_webhook_resumed(
                       [PointWorld EXCEPT !.point_calls = point_calls],
                       outcome))
    /\ point_result' = outcome
    /\ entry_state' = IF outcome = "ok" THEN "loaded"
                      ELSE FailedState(outcome)
    /\ point_pc' = "idle"

\* A variant of the test of async_unload_entry that forgets the result of
\* unloading the platforms.
RemovesWebhookAnyResult(unload_ok, data) == Has(data, CONF_WEBHOOK_ID)

\* async_unload_entry: "if unload_ok := ..." and, inside it,
\* "if CONF_WEBHOOK_ID in entry.data".
RemovesWebhook(unload_ok, data) == unload_ok /\ Has(data, CONF_WEBHOOK_ID)

\* async_unload_entry, from its call to the wait for
\* async_unload_platforms.  The host unloads a loaded entry.
async_unload_entry ==
    /\ point_pc = "idle"
    /\ entry_state = "loaded"
    /\ point_op' = [op |-> "unload_called"]
    /\ point_result' = "pending"
    /\ entry_state' = "unload_in_progress"
    /\ point_pc' = "await_unload_platforms"
    /\ PointCommit(PointWorld)
    /\ UNCHANGED setups

\* async_unload_entry, from the return of async_unload_platforms
\* (unload_ok) to the wait for session.remove_webhook, or to its return.
\* The host records whether the entry could be unloaded.
async_unload_entry_platforms(unload_ok) ==
    /\ point_pc = "await_unload_platforms"
    /\ point_op' = [op |-> "unload", unload_ok |-> unload_ok,
                    remove_webhook |-> "none"]
    /\ UNCHANGED setups
    /\ IF RemovesWebhook(unload_ok, entry_data)
       THEN /\ PointCommit(
                   [PointWorld EXCEPT
                       !.webhooks_registered =
                           @ \ {entry_data[CONF_WEBHOOK_ID]},
                       !.point_calls =
                           <<[call |-> "async_unregister",
                              webhook_id |-> entry_data[CONF_WEBHOOK_ID]],
                             [call |-> "remove_webhook"]>>])
            /\ UNCHANGED <<point_result, entry_state>>
            /\ point_pc' = "await_remove_webhook"
       ELSE /\ PointCommit(PointWorld)
            /\ point_result' = unload_ok
            /\ entry_state' = IF unload_ok THEN "not_loaded"
                              ELSE "failed_unload"
            /\ point_pc' = "idle"

\* async_unload_entry, from the end of session.remove_webhook, which
\* removed the webhook of the Point cloud, to its return of unload_ok; or
\* to the ClientError it lets through.
async_unload_entry_webhook(outcome) ==
    /\ point_pc = "await_remove_webhook"
    /\ point_op' = [point_op EXCEPT !.remove_webhook = outcome]
    /\ UNCHANGED setups
    /\ IF outcome = "ok"
       THEN /\ PointCommit([PointWorld EXCEPT
                               !.remote_webhook = None,
                               !.point_calls = point_calls])
            /\ point_result' = point_op.unload_ok
            /\ entry_state' = "not_loaded"
       ELSE /\ PointCommit([PointWorld EXCEPT !.point_calls = point_calls])
            /\ point_result' = outcome
            /\ entry_state' = "failed_unload"
    /\ point_pc' = "idle"

\* The body of a request: text that is not JSON, a JSON object (obj, a
\* dict), or another JSON value (value; None for null).
InvalidBody == [kind |-> "invalid", obj |-> EmptyDict, value |-> None]
ObjectBody(obj) == [kind |-> "object", obj |-> obj, value |-> None]
ValueBody(value) == [kind |-> "value", obj |-> EmptyDict, value |-> value]

NoRequest == [webhook_id |-> None, body |-> [kind |-> "none"]]

SIGNAL_WEBHOOK == "SIGNAL_WEBHOOK"
EVENT_RECEIVED == "EVENT_RECEIVED"

\* A request.json() that takes every body for JSON.
JsonNeverRaises(body) == FALSE

\* await request.json() raises ValueError
JsonRaises(body) == body.kind = "invalid"

\* isinstance(data, dict)
IsDict(body) == body.kind = "object"

\* dict.get(key): None when the key is missing.
Get(d, k) == IF Has(d, k) THEN d[k] ELSE None

\* handle_webhook, from the end of its wait for request.json(): the calls
\* it makes, in order.
handle_webhook(webhook_id, request) ==
    IF JsonRaises(request.body)
    THEN <<>>
    ELSE IF IsDict(request.body)
    THEN LET data == Put(request.body.obj, "webhook_id", webhook_id)
         IN <<[call |-> "async_dispatcher_send", signal |-> SIGNAL_WEBHOOK,
               data |-> data, hook_id |-> Get(data, "hook_id")],
              [call |-> "async_fire", event_type |-> EVENT_RECEIVED,
               data |-> data]>>
    ELSE <<[call |-> "async_fire", event_type |-> EVENT_RECEIVED,
            value |-> request.body.value]>>

\* A webhook id stored by an earlier run (no id async_generate_id gives).
StoredWebhookId == <<"stored", 0>>

\* A config entry as the host may hold it before the first set up: with or
\* without the OAuth2 implementation, with or without a stored webhook id.
PointInit ==
    /\ entry_data \in
           {EmptyDict,
            [auth_implementation |-> "point"],
            [auth_implementation |-> "point",
             webhook_id |-> StoredWebhookId,
             webhook_url |-> async_generate_url(StoredWebhookId)],
            [webhook_id |-> StoredWebhookId,
             webhook_url |-> async_generate_url(StoredWebhookId)]}
    /\ entry_state = "not_loaded"
    /\ runtime_data = None
    /\ clients_created = 0
    /\ update_tasks = 0
    /\ webhooks_registered = {}
    /\ remote_webhook = None
    /\ point_calls = <<>>
    /\ point_result = "none"
    /\ point_op = [op |-> "none"]
    /\ ids_generated = 0
    /\ setups = 0
    /\ point_pc = "idle"
    /\ hook_waiting = <<>>
    /\ hook_request = NoRequest
    /\ hook_calls = <<>>

\* The Point entry with nothing done to it.
PointIdle ==
    /\ entry_data = EmptyDict
    /\ entry_state = "not_loaded"
    /\ runtime_data = None
    /\ clients_created = 0
    /\ update_tasks = 0
    /\ webhooks_registered = {}
    /\ remote_webhook = None
    /\ point_calls = <<>>
    /\ point_result = "none"
    /\ point_op = [op |-> "none"]
    /\ ids_generated = 0
    /\ setups = 0
    /\ point_pc = "idle"
    /\ hook_waiting = <<>>
    /\ hook_request = NoRequest
    /\ hook_calls = <<>>

(***************************************************************************)
(* Airzone Cloud: the air quality mode selects of the select tests         *)
(***************************************************************************)

VARIABLES
    select_state,   \* entity id -> the state of the select entity
    select_result,  \* how the last select_option call ended
    select_op       \* the last select_option call

selectVars == <<select_state, select_result, select_op>>

\* The select entities the tests read.
SelectEntities ==
    {"select.dormitorio_air_quality_mode", "select.salon_air_quality_mode"}

\* The options of an air quality mode select.
AirQualityOptions == {"auto", "on", "off"}

\* A select that takes every option for one of its own.
ValidOptionAny(option) == TRUE

\* The select_option service refuses an option the entity does not list.
ValidOption(option) == option \in AirQualityOptions

\* How a select_option call ends; api_ok is whether api_patch_device
\* returned.
SelectResult(option, api_ok) ==
    IF ~ValidOption(option) THEN "ServiceValidationError"
    ELSE IF ~api_ok THEN "HomeAssistantError"
    ELSE "ok"

\* The states after a select_option call.
select_option(states, entity_id, option, api_ok) ==
    IF SelectResult(option, api_ok) = "ok"
    THEN [states EXCEPT ![entity_id] = option]
    ELSE states

NoSelect == [op |-> "none"]

\* async_init_integration: every select is "auto".
SelectInit ==
    /\ select_state = [e \in SelectEntities |-> "auto"]
    /\ select_result = "none"
    /\ select_op = NoSelect

(***************************************************************************)
(* Messages and steps                                                      *)
(***************************************************************************)

VARIABLES
    last_msg,      \* the message the last step received (NoMsg otherwise)
    discovered     \* discovered_components as the last message's handler
                   \* built it, before its loop over them

\* The topic of a message: the prefix and the levels, joined by "/".
Topic(levels) == discovery_topic \o S_slash \o JoinStr(levels, S_slash)

\* A received message.  levels is how the sender composed the topic:
\* the component, the optional node_id, the object_id; the handler reads
\* topic, payload and timestamp only.
Msg(levels, payload, timestamp) ==
    [topic |-> Topic(levels \o <<S_config>>), levels |-> levels,
     payload |-> payload, timestamp |-> timestamp]

NoMsg == [topic |-> None, levels |-> <<>>, payload |-> [kind |-> "none"],
          timestamp |-> 0]

EmptyPayload == [kind |-> "empty"]
InvalidPayload == [kind |-> "invalid"]
ObjectPayload(obj) == [kind |-> "object", obj |-> obj]

\* The sequences that list every element of the set S once: the orders a
\* loop over a Python set can take.
Orders(S) ==
    {f \in [1..Cardinality(S) -> S] : \A e \in S : \E i \in DOMAIN f : f[i] = e}

\* What a handler's discovered_components are, each with the discovery
\* hash the handler's loop gives it, for the history.
DiscoveredOf(msg, hashes) ==
    LET match == TopicMatch(RemoveFirst(msg.topic, discovery_topic \o S_slash))
        components == DiscoveredComponents(hashes, msg, match).components
    IN IF match.matched
       THEN [i \in 1..Len(components) |->
                [component |-> components[i].component,
                 node_id |-> components[i].node_id,
                 object_id |-> components[i].object_id,
                 cfg |-> components[i].discovery_payload.cfg,
                 hash |-> Hash(components[i].component,
                               DiscoveryId(components[i].node_id,
                                           components[i].object_id))]]
       ELSE <<>>

\* The MQTT client delivers a message to async_discovery_message_received.
ReceiveMessage(levels, payload) ==
    LET msg == Msg(levels, payload, clock + 1)
    IN \E hashes \in Orders(discovery_already_discovered) :
           /\ Commit(async_discovery_message_received(World, msg, hashes))
           /\ clock' = clock + 1
           /\ last_msg' = msg
           /\ discovered' = DiscoveredOf(msg, hashes)
           /\ UNCHANGED <<pointVars, selectVars>>

\* util.async_forward_entry_setup_and_setup_discovery: the platform is set
\* up and added to platforms_loaded.
async_forward_entry_setup_and_setup_discovery(w, component) ==
    [w EXCEPT !.loaded = @ \cup {component}]

\* A task of _async_component_setup waits at one of three places:
\*   "start"  it was created and has not run yet
\*   "lock"   at line 289, for platform_setup_lock of its component
\*   "setup"  at line 291, for the set up of the platform; it holds the lock
\* The tasks of one component start in the order they were created and an
\* asyncio.Lock serves its waiters in their order, so the first task of a
\* component is the one that holds the lock or gets it next.

\* The first task of the sequence that has not run yet, 0 when all have.
FirstCreated(tasks) ==
    LET S == {i \in 1..Len(tasks) : tasks[i].waits_at = "start"}
    IN IF S = {} THEN 0 ELSE CHOOSE i \in S : \A j \in S : i <= j

\* _async_component_setup, line 294: the first task of the component has
\* left the lock; it calls _async_add_component and ends.
_async_component_setup_end(w, component) ==
    LET task == Head(w.tasks[component])
    IN _async_add_component([w EXCEPT !.tasks[component] = Tail(@)],
                            task.payload, task.known_when_processed)

\* _async_component_setup, line 290: the first task of the component holds
\* the lock; it waits for the set up of a platform that is not loaded, and
\* goes on to line 294 otherwise.
_async_component_setup_locked(w, component) ==
    IF component \notin w.loaded
    THEN [w EXCEPT !.tasks[component][1].waits_at = "setup"]
    ELSE _async_component_setup_end(w, component)

\* _async_component_setup, from the start of the i-th task of the
\* component to its first wait: the first task takes the lock, a later one
\* waits for it.
_async_component_setup(w, component, i) ==
    IF i = 1
    THEN _async_component_setup_locked(w, component)
    ELSE [w EXCEPT !.tasks[component][i].waits_at = "lock"]

\* _async_component_setup, from the return of the set up it waited for at
\* line 291, which loaded the platform, to its end.
_async_component_setup_resumed(w, component) ==
    _async_component_setup_end(
        async_forward_entry_setup_and_setup_discovery(w, component),
        component)

\* What a step of a set up task leaves alone.
TaskStepOnly ==
    /\ UNCHANGED <<clock, pointVars, selectVars>>
    /\ last_msg' = NoMsg
    /\ discovered' = <<>>

\* The event loop starts the next task of a component.
ComponentSetupStart(component) ==
    /\ FirstCreated(setup_tasks[component]) # 0
    /\ Commit(_async_component_setup(
                  World, component, FirstCreated(setup_tasks[component])))
    /\ TaskStepOnly

\* The task that waited for the lock at line 289 gets it.
ComponentSetupLocked(component) ==
    /\ setup_tasks[component] # <<>>
    /\ Head(setup_tasks[component]).waits_at = "lock"
    /\ Commit(_async_component_setup_locked(World, component))
    /\ TaskStepOnly

\* The set up a task waited for at line 291 returns.
ComponentSetupDone(component) ==
    /\ setup_tasks[component] # <<>>
    /\ Head(setup_tasks[component]).waits_at = "setup"
    /\ Commit(_async_component_setup_resumed(World, component))
    /\ TaskStepOnly

\* clear_discovery_hash: set.remove, which raises KeyError for a hash
\* that is not in the set.
clear_discovery_hash(w, discovery_hash) ==
    IF discovery_hash \in w.already
    THEN [w EXCEPT !.already = @ \ {discovery_hash}]
    ELSE [w EXCEPT !.raised = "KeyError"]

\* set_discovery_hash (set.add)
set_discovery_hash(w, discovery_hash) ==
    [w EXCEPT !.already = @ \cup {discovery_hash}]

\* The entity platform sends MQTT_DISCOVERY_DONE for a hash, after
\* clear_discovery_hash when it removed the entity or could not set it up:
\* in answer to a NEW or UPDATED signal, or unasked.  When
\* clear_discovery_hash raises the signal is not sent.
EntityDone(h, clear) ==
    /\ LET w0 == IF clear THEN clear_discovery_hash(World, h) ELSE World
           w1 == [w0 EXCEPT
                     !.hist.awaiting = Put(@, h, CountOf(@, h) - 1),
                     !.hist.unasked =
                         IF Unanswered(hist, h) <= 0
                         THEN Put(@, h, CountOf(@, h) + 1) ELSE @]
       IN IF w0.raised # "none" THEN Commit(w0) ELSE Commit(SendDone(w1, h))
    /\ UNCHANGED <<clock, pointVars, selectVars>>
    /\ last_msg' = NoMsg
    /\ discovered' = <<>>

\* An entity calls clear_discovery_hash.
ClearDiscoveryHash(h) ==
    /\ Commit(clear_discovery_hash(World, h))
    /\ UNCHANGED <<clock, pointVars, selectVars>>
    /\ last_msg' = NoMsg
    /\ discovered' = <<>>

\* An entity calls set_discovery_hash.
SetDiscoveryHash(h) ==
    /\ Commit(set_discovery_hash(World, h))
    /\ UNCHANGED <<clock, pointVars, selectVars>>
    /\ last_msg' = NoMsg
    /\ discovered' = <<>>

MqttInit ==
    /\ discovery_already_discovered = {}
    /\ discovery_pending_discovered = <<>>
    /\ platforms_loaded = {S_switch}
    /\ last_discovery = 0
    /\ setup_tasks = [c \in SUPPORTED_COMPONENTS |-> <<>>]
    /\ sent = <<>>
    /\ clock = 0
    /\ hist = HistInit
    /\ raised = "none"
    /\ last_msg = NoMsg
    /\ discovered = <<>>

vars == <<mqttVars, last_msg, discovered, pointVars, selectVars>>

(***************************************************************************)
(* Spec: single component discovery on a few topics, the platform set up   *)
(* tasks and the entities' answers.                                        *)
(***************************************************************************)

\* The most messages a behaviour receives.
MaxMsgs == 3

\* The most MQTT_DISCOVERY_DONE signals a behaviour sends unasked.
MaxUnasked == 1

S_a == <<"a">>
S_n == <<"n">>
S_t == <<"t">>

QueueLevels == {<<S_sensor, S_a>>, <<S_switch, S_a>>}

\* The hashes of the topics: one of a component that is set up on
\* demand, one of a component that is loaded.
QueueHashes == {Hash(S_sensor, S_a), Hash(S_switch, S_a)}

QueuePayloads == {EmptyPayload, ObjectPayload([state_topic |-> S_t])}

Init == MqttInit /\ PointIdle /\ SelectInit

Receive ==
    /\ clock < MaxMsgs
    /\ \E levels \in QueueLevels, payload \in QueuePayloads :
           ReceiveMessage(levels, payload)

SetupStart ==
    \E component \in SUPPORTED_COMPONENTS : ComponentSetupStart(component)

SetupLocked ==
    \E component \in SUPPORTED_COMPONENTS : ComponentSetupLocked(component)

SetupDone ==
    \E component \in SUPPORTED_COMPONENTS : ComponentSetupDone(component)

\* The MQTT_DISCOVERY_DONE signals sent unasked, for all the hashes.
TotalUnasked(hs) ==
    Cardinality({<<g, i>> \in QueueHashes \X (1..MaxUnasked + 1) :
                    i <= CountOf(hs.unasked, g)})

\* An entity platform sends MQTT_DISCOVERY_DONE for a hash, in answer to a
\* signal or, at most MaxUnasked times, unasked.
Done ==
    \E h \in QueueHashes, clear \in BOOLEAN :
        /\ Unanswered(hist, h) <= 0 => TotalUnasked(hist) < MaxUnasked
        /\ EntityDone(h, clear)

\* The hash entities call set_discovery_hash and clear_discovery_hash for
\* outside a discovery: the one of the component that is set up on demand.
EntityHashes == {Hash(S_sensor, S_a)}

SetHash == \E h \in EntityHashes : SetDiscoveryHash(h)

ClearHash == \E h \in EntityHashes : ClearDiscoveryHash(h)

Next ==
    \/ Receive \/ SetupStart \/ SetupLocked \/ SetupDone
    \/ Done \/ SetHash \/ ClearHash

Spec == Init /\ [][Next]_vars

(***************************************************************************)
(* SpecDevice: device discovery and single component discovery on topics   *)
(* that share ids, rejected payloads and topics, the set up tasks and the  *)
(* entities' answers.                                                      *)
(***************************************************************************)

\* The most messages a behaviour of SpecDevice receives.
MaxDeviceMsgs == 3

S_o == <<"o">>
S_c == <<"c">>
S_e == <<"e">>
S_d == <<"d">>
S_v == <<"v">>
S_i == <<"i">>

DeviceLevels == {<<S_device, S_o>>, <<S_device, S_n, S_o>>}

\* A discovery topic of one component whose ids are those of a device
\* topic; a topic with a character that is not allowed in the object_id,
\* with and without a node_id before it; a component that is not supported.
SingleLevels ==
    {<<S_sensor, S_o, S_c>>, <<S_sensor, S_o, S_config \o <<"$">>>>,
     <<S_sensor, S_o \o <<"$">>>>, <<S_cover, S_o>>}

\* A device payload with shared options and two components, the second
\* one a removal.
DeviceObjectFull ==
    [device |-> [identifiers |-> S_i], origin |-> [name |-> S_d],
     state_topic |-> S_d, availability_topic |-> S_v,
     components |->
         <<[id |-> S_c,
            config |-> [platform |-> S_sensor, state_topic |-> S_t]],
           [id |-> S_e, config |-> [platform |-> S_switch]]>>]

\* A device payload written with abbreviations.
DeviceObjectAbbreviated ==
    [dev |-> [ids |-> S_i], o |-> [name |-> S_d], avty_t |-> S_v,
     cmps |->
         <<[id |-> S_c,
            config |-> [platform |-> S_sensor, stat_t |-> S_t]]>>]

\* A device payload with two components that both have a configuration.
DeviceObjectTwo ==
    [device |-> [identifiers |-> S_i], origin |-> [name |-> S_d],
     components |->
         <<[id |-> S_c,
            config |-> [platform |-> S_sensor, state_topic |-> S_t]],
           [id |-> S_e,
            config |-> [platform |-> S_sensor, state_topic |-> S_v]]>>]

\* A device payload without origin: it fails DEVICE_DISCOVERY_SCHEMA.
DeviceObjectNoOrigin ==
    [device |-> [identifiers |-> S_i],
     components |->
         <<[id |-> S_c,
            config |-> [platform |-> S_sensor, state_topic |-> S_t]]>>]

DevicePayloads ==
    {EmptyPayload, InvalidPayload, ObjectPayload(DeviceObjectFull),
     ObjectPayload(DeviceObjectAbbreviated),
     ObjectPayload(DeviceObjectNoOrigin)}

\* Payloads of one component: one with an origin that has no name, one
\* with a topic base.
SinglePayloads ==
    {EmptyPayload, InvalidPayload, ObjectPayload([state_topic |-> S_t]),
     ObjectPayload([state_topic |-> S_t, o |-> [sw |-> S_i]]),
     ObjectPayload(("~" :> S_d) @@ [state_topic |-> <<"~", "/", "t">>])}

ReceiveDevice ==
    /\ clock < MaxDeviceMsgs
    /\ \E levels \in DeviceLevels, payload \in DevicePayloads :
           ReceiveMessage(levels, payload)

ReceiveSingle ==
    /\ clock < MaxDeviceMsgs
    /\ \E levels \in SingleLevels, payload \in SinglePayloads :
           ReceiveMessage(levels, payload)

\* The entity platform answers a NEW or UPDATED signal with
\* MQTT_DISCOVERY_DONE.
Answer ==
    \E h \in DOMAIN hist.awaiting, clear \in BOOLEAN :
        /\ Unanswered(hist, h) > 0
        /\ EntityDone(h, clear)

NextDevice ==
    \/ ReceiveDevice \/ ReceiveSingle
    \/ SetupStart \/ SetupLocked \/ SetupDone \/ Answer

SpecDevice == Init /\ [][NextDevice]_vars

(***************************************************************************)
(* SpecComponents: device discovery messages with two components that are  *)
(* set up, the set up tasks and the entities' answers.                     *)
(***************************************************************************)

\* The payloads of the device messages: two components, and the removal.
ComponentsPayloads == {ObjectPayload(DeviceObjectTwo), EmptyPayload}

\* The topic of the device messages.
ComponentsLevels == {<<S_device, S_o>>}

ReceiveComponents ==
    /\ clock < MaxDeviceMsgs
    /\ \E levels \in ComponentsLevels, payload \in ComponentsPayloads :
           ReceiveMessage(levels, payload)

NextComponents ==
    \/ ReceiveComponents
    \/ SetupStart \/ SetupLocked \/ SetupDone \/ Answer

SpecComponents == Init /\ [][NextComponents]_vars

(***************************************************************************)
(* SpecPoint: set up and unload of a Minut Point config entry.             *)
(***************************************************************************)

\* MQTT discovery started and idle.
MqttIdle ==
    /\ discovery_already_discovered = {}
    /\ discovery_pending_discovered = <<>>
    /\ platforms_loaded = {}
    /\ last_discovery = 0
    /\ setup_tasks = [c \in SUPPORTED_COMPONENTS |-> <<>>]
    /\ sent = <<>>
    /\ clock = 0
    /\ hist = HistInit
    /\ raised = "none"
    /\ last_msg = NoMsg
    /\ discovered = <<>>

InitPoint == MqttIdle /\ PointInit /\ SelectInit

\* What a step of the set up or the unload leaves alone.
PointStepOnly ==
    UNCHANGED <<mqttVars, last_msg, discovered, hook_waiting, hook_request,
                hook_calls, selectVars>>

\* The host sets the entry up; a behaviour has at most MaxSetups set ups.
SetupEntry ==
    /\ setups < MaxSetups
    /\ async_setup_entry
    /\ PointStepOnly

SetupImplementation == async_setup_entry_implementation /\ PointStepOnly

SetupToken ==
    /\ \E outcome \in TokenOutcomes : async_setup_entry_token(outcome)
    /\ PointStepOnly

SetupWebhook ==
    /\ \E outcome \in SessionOutcomes : async_setup_entry_webhook(outcome)
    /\ PointStepOnly

UnloadEntry == async_unload_entry /\ PointStepOnly

UnloadPlatforms ==
    /\ \E unload_ok \in BOOLEAN : async_unload_entry_platforms(unload_ok)
    /\ PointStepOnly

UnloadWebhook ==
    /\ \E outcome \in SessionOutcomes : async_unload_entry_webhook(outcome)
    /\ PointStepOnly

\* The bodies of the requests the webhook receives: not JSON, JSON objects
\* (empty, with a hook_id, with a webhook_id of their own), JSON null and a
\* JSON number.
WebhookBodies ==
    {InvalidBody,
     ObjectBody(EmptyDict),
     ObjectBody([hook_id |-> <<"h">>, event |-> <<"e">>]),
     ObjectBody([webhook_id |-> <<"x">>]),
     ValueBody(None),
     ValueBody(<<"1">>)}

\* The most calls of handle_webhook that wait for their body at a time.
MaxWaiting == 2

\* What a step of handle_webhook leaves alone.
WebhookStepOnly ==
    /\ UNCHANGED <<entry_data, entry_state, runtime_data, clients_created,
                   update_tasks, webhooks_registered, remote_webhook,
                   point_calls, point_result, point_op, ids_generated,
                   setups, point_pc>>
    /\ UNCHANGED <<mqttVars, last_msg, discovered, selectVars>>

\* The sequence without its i-th element.
RemoveAt(seq, i) == SubSeq(seq, 1, i - 1) \o SubSeq(seq, i + 1, Len(seq))

\* The host calls handle_webhook for a request to a registered webhook;
\* the handler waits for the body of the request (await request.json()).
HandleWebhook ==
    /\ Len(hook_waiting) < MaxWaiting
    /\ \E webhook_id \in webhooks_registered :
           hook_waiting' = Append(hook_waiting, webhook_id)
    /\ UNCHANGED <<hook_request, hook_calls>>
    /\ WebhookStepOnly

\* The body of a waiting request arrives: request.json() returns or
\* raises, and handle_webhook runs to its end, whether its webhook is
\* still registered or not.
HandleWebhookBody ==
    /\ \E i \in 1..Len(hook_waiting), body \in WebhookBodies :
           LET webhook_id == hook_waiting[i]
               request == [webhook_id |-> webhook_id, body |-> body]
           IN /\ hook_request' = request
              /\ hook_calls' = handle_webhook(webhook_id, request)
              /\ hook_waiting' = RemoveAt(hook_waiting, i)
    /\ WebhookStepOnly

NextPoint ==
    \/ SetupEntry \/ SetupImplementation \/ SetupToken \/ SetupWebhook
    \/ UnloadEntry \/ UnloadPlatforms \/ UnloadWebhook
    \/ HandleWebhook \/ HandleWebhookBody

SpecPoint == InitPoint /\ [][NextPoint]_vars

(***************************************************************************)
(* SpecSelect: select_option calls on the air quality mode selects         *)
(***************************************************************************)

\* The options the calls name: the entity's and one it does not list.
CalledOptions == AirQualityOptions \cup {"Invalid"}

\* hass.services.async_call(SELECT_DOMAIN, SERVICE_SELECT_OPTION, ...)
SelectOption(entity_id, option, api_ok) ==
    /\ select_op' = [op |-> "select_option", entity_id |-> entity_id,
                     option |-> option, api_ok |-> api_ok]
    /\ select_result' = SelectResult(option, api_ok)
    /\ select_state' = select_option(select_state, entity_id, option, api_ok)
    /\ UNCHANGED <<mqttVars, last_msg, discovered, pointVars>>

InitSelect == MqttIdle /\ PointIdle /\ SelectInit

CallSelectOption ==
    \E entity_id \in SelectEntities, option \in CalledOptions,
       api_ok \in BOOLEAN :
        SelectOption(entity_id, option, api_ok)

NextSelect == CallSelectOption

SpecSelect == InitSelect /\ [][NextSelect]_vars

(***************************************************************************)
(* The pending queue (C1, C2, C3)                                          *)
(***************************************************************************)

\* The ids of the payloads of a deque, left first.
Ids(pending) == [i \in 1..Len(pending) |-> pending[i].id]

Reverse(s) == [i \in 1..Len(s) |-> s[Len(s) + 1 - i]]

\* The pending deque of a hash, empty when the hash has no entry.
PendingOf(pend, h) == IF h \in DOMAIN pend THEN pend[h] ELSE <<>>

\* The set up tasks created for a hash and not finished.
TasksOf(tasks, h) ==
    Cardinality({<<c, i>> \in SUPPORTED_COMPONENTS
                               \X (1..2 * (MaxMsgs + MaxDeviceMsgs)) :
                    /\ i <= Len(tasks[c])
                    /\ tasks[c][i].payload.discovery_data.hash = h})

\* The discoveries of a hash being handled: its set up tasks, and its NEW
\* and UPDATED signals not yet answered by MQTT_DISCOVERY_DONE.
InFlight(tasks, hs, h) == TasksOf(tasks, h) + Unanswered(hs, h)

\* A step in which discovery_done ran for the hash.
DoneReceived(h) == CountOf(hist'.done, h) > CountOf(hist.done, h)

\* A step that received a message with a component of that hash: one of
\* the discovered_components the handler built from the message.
ReceivedFor(h) ==
    /\ last_msg' # NoMsg
    /\ \E i \in 1..Len(discovered') : discovered'[i].hash = h

\* A NEW or UPDATED signal of the hash among the signals of a step.
SignalsFor(signals, h) ==
    {i \in 1..Len(signals) :
        signals[i].hash = h /\ signals[i].signal \in {"NEW", "UPDATED"}}

\* The hashes a step is about: those with a pending entry, before or after
\* it, and those of the components of the message it received.
StepHashes ==
    (DOMAIN discovery_pending_discovered)
        \cup (DOMAIN discovery_pending_discovered')
        \cup {discovered'[i].hash : i \in 1..Len(discovered')}

\* C1 as claimed: a message for a hash with a pending entry has its payload
\* put on the hash's queue, and dispatches no NEW or UPDATED signal for the
\* hash; until discovery_done runs for the hash no NEW or UPDATED signal
\* is dispatched for it; and at most one discovery per hash is being
\* handled.
C1_NoSignalWhilePending ==
    [][\A h \in StepHashes :
          /\ (ReceivedFor(h) /\ h \in DOMAIN discovery_pending_discovered)
                 => /\ h \in DOMAIN discovery_pending_discovered'
                    /\ Ids(discovery_pending_discovered'[h]) =
                           <<last_msg'.timestamp>>
                               \o Ids(discovery_pending_discovered[h])
                    /\ SignalsFor(sent', h) = {}
          /\ (PendingOf(discovery_pending_discovered, h) # <<>>
                  /\ ~DoneReceived(h))
                 => SignalsFor(sent', h) = {}
          /\ InFlight(setup_tasks', hist', h) <= 1]_vars

\* C2: for every hash, the payloads taken from its deque followed by the
\* payloads still in it, oldest first, are the payloads that were queued,
\* in the order of their messages (first queued, first processed, none
\* twice, none lost); and every run of discovery_done took exactly one
\* payload from the deque, or found it empty and removed the entry.
C2_FifoOnePerDone ==
    \A h \in QueueHashes :
        /\ SeqOf(hist.dequeued, h)
               \o Reverse(Ids(PendingOf(discovery_pending_discovered, h)))
           = SeqOf(hist.queued, h)
        /\ \A i, j \in 1..Len(SeqOf(hist.queued, h)) :
               i < j => SeqOf(hist.queued, h)[i] < SeqOf(hist.queued, h)[j]
        /\ CountOf(hist.done, h) =
               Len(SeqOf(hist.dequeued, h)) + CountOf(hist.created, h)
                   - (IF h \in DOMAIN discovery_pending_discovered
                      THEN 1 ELSE 0)

\* C2's case: two payloads were queued for a hash and both were processed,
\* one for each MQTT_DISCOVERY_DONE.
C2_Witness ==
    \E h \in QueueHashes :
        /\ Len(SeqOf(hist.dequeued, h)) >= 2
        /\ CountOf(hist.done, h) >= 2

\* C3 as claimed: a payload processed for a hash that is in
\* discovery_already_discovered is dispatched as MQTT_DISCOVERY_UPDATED and
\* never as MQTT_DISCOVERY_NEW; MQTT_DISCOVERY_NEW is dispatched only for a
\* hash that is not in discovery_already_discovered, which then holds it.
C3_UpdatedWhenDiscovered ==
    \A i \in 1..Len(sent) :
        sent[i].signal \in {"NEW", "UPDATED"} =>
            /\ sent[i].known_when_processed => sent[i].signal = "UPDATED"
            /\ sent[i].signal = "NEW" =>
                   /\ ~sent[i].known_when_sent
                   /\ sent[i].hash \in discovery_already_discovered
            /\ sent[i].signal = "UPDATED" => sent[i].known_when_processed

(***************************************************************************)
(* Device discovery, hashes, rejected messages (C4 to C8)                  *)
(***************************************************************************)

\* The last step received a message.
Received == last_msg # NoMsg

\* The sender's component, node_id (None when the topic has none) and
\* object_id of a message.
SentComponent(msg) == msg.levels[1]
SentNodeId(msg) == IF Len(msg.levels) = 3 THEN msg.levels[2] ELSE None
SentObjectId(msg) == msg.levels[Len(msg.levels)]

\* An id made only of the characters [a-zA-Z0-9_-], and not empty.
IsId(x) == x # <<>> /\ \A i \in 1..Len(x) : x[i] \in IdChars

\* The topic has the form <component>/[<node_id>/]<object_id>/config.
ValidForm(msg) ==
    /\ SentComponent(msg) # <<>>
    /\ \A i \in 1..Len(SentComponent(msg)) :
           SentComponent(msg)[i] \in WordChars
    /\ \A k \in 2..Len(msg.levels) : IsId(msg.levels[k])

IsDeviceMsg(msg) == SentComponent(msg) = S_device

\* The hashes the handler made an empty (removal) payload for.
RemovalHashes(components) ==
    {components[i].hash :
        i \in {k \in 1..Len(components) : DOMAIN components[k].cfg = {}}}

\* The discovered hashes that a device discovery message on the topic
\* created.
CreatedByDeviceTopic(topic) ==
    {h \in discovery_already_discovered :
        /\ h \in DOMAIN hist.source
        /\ hist.source[h].topic = topic
        /\ hist.source[h].device_discovery}

\* C4 as claimed: an empty payload on a device discovery topic, with or
\* without node_id, produces a removal payload for every discovered hash
\* that a device discovery message on that topic created, and for no other
\* hash.
C4_DeviceCleanup ==
    (Received /\ ValidForm(last_msg) /\ IsDeviceMsg(last_msg)
         /\ last_msg.payload.kind = "empty")
        => RemovalHashes(discovered) = CreatedByDeviceTopic(last_msg.topic)

\* The discovery id the claim gives a component of a device discovery
\* message: "<object_id> <component_id>" or
\* "<object_id> <node_id> <component_id>".
ClaimedDeviceId(msg, component_id) ==
    IF SentNodeId(msg) # None
    THEN SentObjectId(msg) \o S_space \o SentNodeId(msg) \o S_space
             \o component_id
    ELSE SentObjectId(msg) \o S_space \o component_id

\* The discovery id the claim gives a single component message:
\* "<node_id> <object_id>" or "<object_id>".
ClaimedSingleId(msg) ==
    IF SentNodeId(msg) # None
    THEN SentNodeId(msg) \o S_space \o SentObjectId(msg)
    ELSE SentObjectId(msg)

\* The components of a device payload as the sender wrote them.
SentComponents(obj) ==
    IF Has(obj, CONF_COMPONENTS) THEN obj[CONF_COMPONENTS] ELSE obj["cmps"]

\* C5: the hash of a single component message is (component, "<node_id>
\* <object_id>") or (component, "<object_id>"); the hash of a component of
\* a device discovery message is (platform, "<object_id> <component_id>")
\* or (platform, "<object_id> <node_id> <component_id>").
C5_DiscoveryHash ==
    (Received /\ ValidForm(last_msg) /\ discovered # <<>>) =>
        IF ~IsDeviceMsg(last_msg)
        THEN /\ Len(discovered) = 1
             /\ discovered[1].hash =
                    <<SentComponent(last_msg), ClaimedSingleId(last_msg)>>
        ELSE last_msg.payload.kind = "object" =>
                 LET items == SentComponents(last_msg.payload.obj)
                 IN /\ Len(discovered) = Len(items)
                    /\ \A i \in 1..Len(items) :
                           discovered[i].hash =
                               <<items[i].config[CONF_PLATFORM],
                                 ClaimedDeviceId(last_msg, items[i].id)>>

\* C5's case: a device discovery message on a topic with a node_id whose
\* component was processed under its hash.
C5_Witness ==
    /\ Received /\ IsDeviceMsg(last_msg) /\ SentNodeId(last_msg) = S_n
    /\ last_msg.payload.kind = "object"
    /\ discovered # <<>>
    /\ discovered[1].hash \in DOMAIN discovery_pending_discovered
    /\ discovered[1].hash =
           <<S_sensor, <<"o", " ", "n", " ", "c">>>>

\* A step that received a message.
ReceiveStep == last_msg' # NoMsg /\ clock' = clock + 1

\* The handler left discovery as it was: nothing dispatched, nothing
\* queued, no set up task, the discovered and pending hashes unchanged.
Ignored ==
    /\ sent' = <<>>
    /\ UNCHANGED <<discovery_already_discovered,
                   discovery_pending_discovered, setup_tasks>>
    /\ hist'.queued = hist.queued

\* C6 as claimed: every received message sets last_discovery to its
\* timestamp, and a message whose topic does not have the form
\* <component>/[<node_id>/]<object_id>/config is ignored.
C6_InvalidTopicIgnored ==
    [][ReceiveStep =>
           /\ last_discovery' = last_msg'.timestamp
           /\ ~ValidForm(last_msg') => Ignored]_vars

\* The origin of a single component payload as the sender wrote it.
HasBadOrigin(obj) ==
    \/ Has(obj, CONF_ORIGIN) /\ ~Has(obj[CONF_ORIGIN], "name")
    \/ Has(obj, "o") /\ ~Has(obj, CONF_ORIGIN) /\ ~Has(obj["o"], "name")

\* The reasons the claim lists for rejecting a message on a valid topic.
RejectedMsg(msg, known) ==
    /\ ValidForm(msg)
    /\ \/ msg.payload.kind = "invalid"
       \/ /\ ~IsDeviceMsg(msg)
          /\ msg.payload.kind = "object"
          /\ HasBadOrigin(msg.payload.obj)
       \/ /\ IsDeviceMsg(msg)
          /\ msg.payload.kind = "object"
          /\ ~DeviceSchemaValid(_replace_all_abbreviations(msg.payload.obj))
       \/ /\ ~IsDeviceMsg(msg)
          /\ SentComponent(msg) \notin SUPPORTED_COMPONENTS
       \/ /\ IsDeviceMsg(msg)
          /\ msg.payload.kind = "empty"
          /\ \A h \in known :
                 LET ids == SplitSpace(h[2])
                 IN Len(ids) = 1
                        \/ ids[1] # DiscoveryId(SentNodeId(msg),
                                                SentObjectId(msg))

\* C7: a rejected message dispatches nothing, queues nothing and leaves
\* discovery_already_discovered and discovery_pending_discovered as they
\* were.
C7_RejectedNoEffect ==
    [][(ReceiveStep /\ RejectedMsg(last_msg', discovery_already_discovered))
           => Ignored]_vars

\* C7's case: a message was rejected while a discovery was being handled
\* and another hash was discovered.
C7_Witness ==
    /\ Received
    /\ RejectedMsg(last_msg, discovery_already_discovered)
    /\ ~IsDeviceMsg(last_msg)
    /\ last_msg.payload.kind = "object"
    /\ SentComponent(last_msg) \in SUPPORTED_COMPONENTS
    /\ discovery_already_discovered # {}
    /\ DOMAIN discovery_pending_discovered # {}

\* C8: of a device discovery message, a component config that is not
\* empty without its platform gets the device config, the origin config
\* and every shared option of the device payload it does not set itself,
\* and keeps the shared options it sets; a component config that is empty
\* without its platform stays empty.
C8_DeviceMerge ==
    (Received /\ ValidForm(last_msg) /\ IsDeviceMsg(last_msg)
         /\ last_msg.payload.kind = "object" /\ discovered # <<>>) =>
        LET device_payload == _replace_all_abbreviations(last_msg.payload.obj)
            items == SentComponents(last_msg.payload.obj)
        IN \A i \in 1..Len(items) :
               LET own == _replace_all_abbreviations(
                              Del(items[i].config, CONF_PLATFORM))
                   got == discovered[i].cfg
               IN IF DOMAIN own = {}
                  THEN DOMAIN got = {}
                  ELSE /\ got[CONF_DEVICE] = device_payload[CONF_DEVICE]
                       /\ got[CONF_ORIGIN] = device_payload[CONF_ORIGIN]
                       /\ \A o \in SHARED_OPTIONS :
                              /\ Has(own, o) => got[o] = own[o]
                              /\ (Has(device_payload, o) /\ ~Has(own, o))
                                     => got[o] = device_payload[o]
                              /\ (~Has(device_payload, o) /\ ~Has(own, o))
                                     => ~Has(got, o)
                       /\ \A k \in DOMAIN own :
                              k \notin {CONF_DEVICE, CONF_ORIGIN}
                                  => got[k] = own[k]

\* C8's case: a device payload with two shared options and two components;
\* one component sets one of the options itself and gets the other, the
\* other component is a removal.
C8_Witness ==
    /\ Received /\ IsDeviceMsg(last_msg)
    /\ last_msg.payload.kind = "object"
    /\ Len(discovered) = 2
    /\ discovered[1].cfg["state_topic"] = S_t
    /\ last_msg.payload.obj["state_topic"] = S_d
    /\ discovered[1].cfg["availability_topic"] = S_v
    /\ DOMAIN discovered[2].cfg = {}

(***************************************************************************)
(* Minut Point: set up and webhook (C9, C10)                               *)
(***************************************************************************)

\* A step of async_setup_entry before the access token was fetched: its
\* call, and the return of async_get_config_entry_implementation.
SetupBeforeToken ==
    \/ setups' = setups + 1
    \/ point_pc = "await_implementation" /\ point_pc' # point_pc

\* The step in which auth.async_get_access_token ended.
TokenStep == point_pc = "await_access_token" /\ point_pc' # point_pc

\* A step in which async_setup_entry raised ConfigEntryAuthFailed or
\* ConfigEntryNotReady.
SetupRaised ==
    /\ SetupBeforeToken \/ TokenStep
    /\ point_pc' = "idle"
    /\ point_result' \in {"ConfigEntryAuthFailed", "ConfigEntryNotReady"}

\* async_get_access_token failed with HTTP 401 or 403.
TokenRefused(outcome) ==
    outcome.kind = "ClientResponseError" /\ outcome.status \in {401, 403}

\* async_get_access_token failed in another way.
TokenFailedOtherwise(outcome) ==
    \/ outcome.kind = "ClientResponseError" /\ outcome.status \notin {401, 403}
    \/ outcome.kind = "ClientError"

\* The step made no client, started no update task, and left runtime_data,
\* the webhooks and the entry data as they were.
NothingSetUp ==
    /\ UNCHANGED <<clients_created, update_tasks, runtime_data,
                   webhooks_registered, remote_webhook, entry_data>>
    /\ point_calls' = <<>>
    /\ entry_state' # "loaded"

\* C9: async_setup_entry fails with ConfigEntryAuthFailed when the entry
\* data has no auth_implementation (at its call) or the access token is
\* refused with HTTP 401 or 403, with ConfigEntryNotReady when fetching
\* the access token fails with another ClientResponseError or another
\* ClientError; up to the step in which it so fails no client is created,
\* no update task is started, runtime_data is not set and no webhook is
\* registered.
C9_SetupFailures ==
    [][/\ (setups' = setups + 1 /\ ~Has(entry_data, "auth_implementation"))
              => SetupRaised /\ point_result' = "ConfigEntryAuthFailed"
       /\ (TokenStep /\ TokenRefused(point_op'.outcome))
              => SetupRaised /\ point_result' = "ConfigEntryAuthFailed"
       /\ (TokenStep /\ TokenFailedOtherwise(point_op'.outcome))
              => SetupRaised /\ point_result' = "ConfigEntryNotReady"
       /\ SetupBeforeToken => NothingSetUp
       /\ SetupRaised => NothingSetUp]_vars

\* C9's case: the set up of an entry with an auth_implementation failed
\* with HTTP 403 and left no client, no runtime_data and no webhook.
C9_Witness ==
    /\ point_op.op = "setup"
    /\ point_pc = "idle"
    /\ point_op.outcome.status = 403
    /\ Has(entry_data, "auth_implementation")
    /\ point_result = "ConfigEntryAuthFailed"
    /\ entry_state = "setup_error"
    /\ clients_created = 0
    /\ update_tasks = 0
    /\ runtime_data = None
    /\ webhooks_registered = {}

\* The webhook ids the calls of an operation were given.
CallIds(calls) ==
    {calls[i].webhook_id :
        i \in {k \in 1..Len(calls) :
                  calls[k].call \in {"update_webhook", "async_register"}}}

\* C10: a webhook id is generated only when the entry data has none; an id
\* that is stored stays, with its URL; and the id update_webhook and
\* async_register are given is the id stored in the entry data.
C10_WebhookIdStable ==
    [][/\ ids_generated' # ids_generated
              => ~Has(entry_data, CONF_WEBHOOK_ID)
       /\ Has(entry_data, CONF_WEBHOOK_ID)
              => /\ Has(entry_data', CONF_WEBHOOK_ID)
                 /\ entry_data'[CONF_WEBHOOK_ID] = entry_data[CONF_WEBHOOK_ID]
                 /\ entry_data'[CONF_WEBHOOK_URL]
                        = entry_data[CONF_WEBHOOK_URL]
       /\ CallIds(point_calls') # {}
              => /\ Has(entry_data', CONF_WEBHOOK_ID)
                 /\ CallIds(point_calls') = {entry_data'[CONF_WEBHOOK_ID]}
                 /\ \A i \in 1..Len(point_calls') :
                        point_calls'[i].call = "update_webhook" =>
                            point_calls'[i].url =
                                async_generate_url(
                                    entry_data'[CONF_WEBHOOK_ID])]_vars

\* C10's case: the entry, set up without a webhook id, was unloaded and
\* set up again, and the second set up registered the id the first one
\* generated.
C10_Witness ==
    /\ setups >= 2
    /\ point_pc = "idle"
    /\ clients_created = 2
    /\ ids_generated = 1
    /\ entry_state = "loaded"
    /\ webhooks_registered = {entry_data[CONF_WEBHOOK_ID]}
    /\ remote_webhook = <<"generated", 1>>

(***************************************************************************)
(* Minut Point: unload (C11)                                               *)
(***************************************************************************)

\* The step in which async_unload_platforms returned.
PlatformsStep ==
    point_pc = "await_unload_platforms" /\ point_pc' # point_pc

\* The step in which session.remove_webhook returned.
RemoveWebhookReturned ==
    /\ point_pc = "await_remove_webhook" /\ point_pc' # point_pc
    /\ point_op'.remove_webhook = "ok"

\* The step unregistered the local webhook of the entry's id and called
\* remove_webhook, whose return async_unload_entry waits for.
WebhookRemoved ==
    /\ Has(entry_data, CONF_WEBHOOK_ID)
    /\ point_calls' =
           <<[call |-> "async_unregister",
              webhook_id |-> entry_data[CONF_WEBHOOK_ID]],
             [call |-> "remove_webhook"]>>
    /\ entry_data[CONF_WEBHOOK_ID] \notin webhooks_registered'
    /\ point_pc' = "await_remove_webhook"

\* The step left the local and the remote webhook as they were and
\* returned.
WebhookKept ==
    /\ point_calls' = <<>>
    /\ UNCHANGED <<webhooks_registered, remote_webhook>>
    /\ point_pc' = "idle"

\* C11: async_unload_entry returns the result of unloading the platforms;
\* when the platforms are unloaded it unregisters the local webhook and
\* calls remove_webhook if and only if they were unloaded and the entry
\* has a webhook id, and the remote webhook is gone when remove_webhook
\* has returned; when the unload of the platforms fails both webhooks
\* stay.
C11_UnloadWebhook ==
    [][/\ PlatformsStep =>
              /\ UNCHANGED entry_data
              /\ IF point_op'.unload_ok /\ Has(entry_data, CONF_WEBHOOK_ID)
                 THEN WebhookRemoved
                 ELSE WebhookKept /\ point_result' = point_op'.unload_ok
              /\ ~point_op'.unload_ok =>
                     /\ entry_data[CONF_WEBHOOK_ID] \in webhooks_registered'
                     /\ remote_webhook' = entry_data[CONF_WEBHOOK_ID]
       /\ RemoveWebhookReturned =>
              /\ point_op'.unload_ok
              /\ point_result' = point_op'.unload_ok
              /\ remote_webhook' = None
              /\ point_pc' = "idle"
              /\ UNCHANGED <<entry_data, webhooks_registered, point_calls>>
       /\ (point_pc = "idle" /\ point_pc' = "await_unload_platforms")
              => UNCHANGED <<entry_data, webhooks_registered,
                             remote_webhook>>]_vars

\* C11's case: the entry was set up, unloaded (its webhook removed), set up
\* again, and then the unload of its platforms failed: the webhook of the
\* id generated by the first set up is still registered, locally and
\* remotely.
C11_Witness ==
    /\ point_op.op = "unload"
    /\ point_pc = "idle"
    /\ point_op.remove_webhook = "none"
    /\ point_result = FALSE
    /\ entry_state = "failed_unload"
    /\ clients_created = 2
    /\ ids_generated = 1
    /\ webhooks_registered = {<<"generated", 1>>}
    /\ remote_webhook = <<"generated", 1>>

(***************************************************************************)
(* Minut Point: handle_webhook (C12)                                       *)
(***************************************************************************)

\* handle_webhook got the body of a request; hook_request and hook_calls
\* are the last such request and the calls it made for it.
WebhookHandled == hook_request # NoRequest

\* The data the claim gives a JSON object body: the body's items and the
\* webhook_id of the call.
ClaimedData(request) ==
    [k \in (DOMAIN request.body.obj) \cup {"webhook_id"} |->
        IF k = "webhook_id" THEN request.webhook_id ELSE request.body.obj[k]]

\* C12: for a body that is not JSON handle_webhook dispatches and fires
\* nothing; for a JSON object it adds the webhook_id, dispatches the data
\* on SIGNAL_WEBHOOK and then fires it as EVENT_RECEIVED; for another JSON
\* value it fires EVENT_RECEIVED only.
C12_HandleWebhook ==
    WebhookHandled =>
        LET body == hook_request.body
        IN /\ body.kind = "invalid" => hook_calls = <<>>
           /\ body.kind = "object" =>
                  /\ Len(hook_calls) = 2
                  /\ hook_calls[1].call = "async_dispatcher_send"
                  /\ hook_calls[1].signal = SIGNAL_WEBHOOK
                  /\ DOMAIN hook_calls[1].data
                         = DOMAIN ClaimedData(hook_request)
                  /\ \A k \in DOMAIN hook_calls[1].data :
                         hook_calls[1].data[k] = ClaimedData(hook_request)[k]
                  /\ hook_calls[2].call = "async_fire"
                  /\ hook_calls[2].event_type = EVENT_RECEIVED
                  /\ DOMAIN hook_calls[2].data = DOMAIN hook_calls[1].data
                  /\ \A k \in DOMAIN hook_calls[2].data :
                         hook_calls[2].data[k] = hook_calls[1].data[k]
           /\ body.kind = "value" =>
                  /\ Len(hook_calls) = 1
                  /\ hook_calls[1].call = "async_fire"
                  /\ hook_calls[1].event_type = EVENT_RECEIVED
                  /\ hook_calls[1].value = body.value

\* C12's case: a JSON object with a hook_id was received on the webhook
\* of a generated id, dispatched with that hook_id and then fired.
C12_Witness ==
    /\ WebhookHandled
    /\ hook_request.body.kind = "object"
    /\ hook_request.webhook_id = <<"generated", 1>>
    /\ Has(hook_request.body.obj, "hook_id")
    /\ Len(hook_calls) = 2
    /\ hook_calls[1].hook_id = <<"h">>
    /\ hook_calls[1].data["webhook_id"] = <<"generated", 1>>
    /\ hook_calls[2].call = "async_fire"

(***************************************************************************)
(* Airzone Cloud: select_option (C13)                                      *)
(***************************************************************************)

\* Every select is "auto" as long as no select_option call was made.
AutoAfterSetup ==
    select_op = NoSelect => \A e \in SelectEntities : select_state[e] = "auto"

\* A select_option call with an option the entity does not list raises
\* ServiceValidationError and changes no state; a call with a listed option
\* whose API patch succeeds makes the option the entity's state.
SelectOptionStep ==
    select_op'.op = "select_option" =>
        /\ select_op'.option \notin AirQualityOptions =>
               /\ select_result' = "ServiceValidationError"
               /\ UNCHANGED select_state
        /\ (select_op'.option \in AirQualityOptions /\ select_op'.api_ok) =>
               /\ select_result' = "ok"
               /\ select_state'[select_op'.entity_id] = select_op'.option
               /\ \A e \in SelectEntities \ {select_op'.entity_id} :
                      select_state'[e] = select_state[e]

\* C13: the air quality mode select is "auto" after setup; select_option
\* with an option that is not in the option list raises
\* ServiceValidationError and leaves the state unchanged; after a
\* select_option with a valid option whose API patch succeeds the state
\* is that option.
C13_SelectOption == []AutoAfterSetup /\ [][SelectOptionStep]_vars

\* C13's case: "off" was selected for the dormitorio select, and a later
\* call with the option "Invalid" was refused and left it "off".
C13_Witness ==
    /\ select_op.op = "select_option"
    /\ select_op.entity_id = "select.dormitorio_air_quality_mode"
    /\ select_op.option = "Invalid"
    /\ select_result = "ServiceValidationError"
    /\ select_state["select.dormitorio_air_quality_mode"] = "off"
    /\ select_state["select.salon_air_quality_mode"] = "auto"
====
